---------------------------- MODULE Spec2Model ----------------------------
(***************************************************************************)
(* Model of the wake-word gated streaming recognizer                       *)
(* (src/src/caal/stt/wake_word_gated.py, class WakeWordGatedStream).       *)
(*                                                                         *)
(* The stream runs on one asyncio event loop, so every stretch of code     *)
(* between two awaits is one atomic action.  The four tasks started by     *)
(* _run (process_audio, read_inner_events, track_speech_activity,          *)
(* monitor_silence) and the external caller of set_agent_busy interleave   *)
(* at the awaits only.                                                     *)
(*                                                                         *)
(* Time is discrete: one tick is one polling interval of the Silence       *)
(* Monitor (0.5 s).  time.time() is the variable now.  A sleeping monitor  *)
(* wakes exactly at its deadline (no timer jitter); an awaited callback    *)
(* of the caller may take any number of ticks.  Scores are scaled by 100.  *)
(*                                                                         *)
(* Spec follows one running stream without failures.  FaultSpec adds       *)
(* raising callbacks, a raising predict, failing sub-streams, cancellation *)
(* and the finally clause of _run, for a stream whose agent stays idle and *)
(* whose sub-streams yield no events.  SttSpec follows WakeWordGatedSTT:   *)
(* stream() calls, with model loads that may fail, and set_agent_busy.     *)
(* SpeechSpec follows a stream with an idle agent and the events of the    *)
(* speech-activity stream over one frame more; InputSpec a source that     *)
(* sends flush signals and ends its input (InputLiveSpec adds the fairness *)
(* of the event loop); SessionSpec an STT whose stream is closed and       *)
(* followed by a second one; DrainSpec a source that ends its input and    *)
(* sub-streams that then run dry (DrainLiveSpec adds the fairness);        *)
(* SampleSpec the samples of the frames given to the detector.             *)
(***************************************************************************)
EXTENDS Integers, Sequences, FiniteSets

\* ---------------------------------------------------------------- bounds
\* Last instant the clock is advanced to.
MaxTime == 7
\* Items (frames and flush signals) pushed on the input channel in one run.
MaxItems == 2
\* Items pushed in one run of a stream whose agent stays idle and whose
\* source sends no flush signal (SpeechSpec).
MaxItemsQuiet == 3
\* Items that may wait in the input channel at once.
MaxQueue == 1
\* silence_timeout in ticks of 0.5 s (a constructor argument; default 3.0 s)
SilenceTimeout == 2
\* Events of the inner stream that are followed on the output channel.
MaxEvents == 2
\* stream() calls that create a stream, and stream() calls that fail.
MaxStreams == 2
MaxLoadErrors == 2
\* Failures of one kind (a callback raising, predict raising) in one run.
MaxFaults == 1
\* Channels of a frame, samples per channel of a frame, and samples held in
\* the detection buffer, where the samples themselves are followed
\* (SampleSpec).
MaxChannels == 3
MaxPerChannel == 2
MaxBuffered == 3

\* ------------------------------------------------------ program constants
\* threshold: float = 0.5 (scaled by 100)
Threshold == 50
\* await asyncio.sleep(0.5): one tick
PollInterval == 1
\* OWW_CHUNK_SAMPLES
ChunkSamples == 1280
\* time.time() at stream start: the epoch clock is far beyond any timeout,
\* while _last_speech_time starts at 0.0
StartTime == SilenceTimeout + 1

\* Scores one inference call may return for a model.
Scores == {40, 50, 60}
\* Keys of the predictions dict, in its iteration order.
ModelNames == <<"m1", "m2">>
Models == {ModelNames[i] : i \in 1..Len(ModelNames)}
ScoreVectors == [Models -> Scores]
\* Mono sample counts of the frames the source delivers.
FrameSizes == {640, 1920}
\* Values of the int16 samples of a frame whose samples are followed.
SampleValues == {1, 2}
Frame(n) == [kind |-> "frame", samples |-> n]
FlushSentinel == [kind |-> "flush", samples |-> 0]
InnerEventTypes == {"START_OF_SPEECH", "INTERIM_TRANSCRIPT",
                    "FINAL_TRANSCRIPT", "END_OF_SPEECH"}
VADEventTypes == {"START_OF_SPEECH", "INFERENCE_DONE", "END_OF_SPEECH"}

\* No model name: the locals of the wake handling are not bound.
NoModel == "none"

\* The tasks _run creates, by their names.
Tasks == {"process_audio", "read_inner_events", "track_speech_activity",
          "monitor_silence"}

LISTENING == "listening"
ACTIVE == "active"

VARIABLES
  oww_model,         \* WakeWordGatedSTT._oww is not None
  model_loads,       \* OWWModel objects constructed
  active_stream,     \* WakeWordGatedSTT._active_stream: the number of the
                     \* stream, 0 for None
  streams,           \* WakeWordGatedStream objects constructed
  load_errors,       \* stream() calls that raised
  state,             \* self._state (this and the fields below are those of
                     \* the latest stream)
  agent_busy,        \* self._agent_busy
  earlier_busy,      \* self._agent_busy of the stream created before the
                     \* latest one (False while there is none)
  speech_active,     \* self._speech_active
  last_speech_time,  \* self._last_speech_time
  oww_buffer,        \* number of samples held in self._oww_buffer
  oww_primed,        \* the model holds hidden state of chunks since reset()
  on_wake_detected,  \* whether the callback is configured
  on_state_changed,  \* whether the callback is configured
  now,               \* time.time()
  run_pc,            \* _run: "start" | "running" (in gather) | "raised" |
                     \* "waiting" (in cancel_and_wait) | "close_vad" | "done"
  tasks,             \* the tasks of _run that have not terminated
  cancelling,        \* cancel() was called on the tasks of _run
  inner_closed,      \* self._inner_stream.aclose() was called
  vad_closed,        \* vad_stream.aclose() was called
  state_errors,      \* on_state_changed invocations that raised
  wake_errors,       \* on_wake_detected invocations that raised
  predict_errors,    \* predict calls that raised
  input_ch,          \* self._input_ch: frames and flush sentinels
  input_closed,      \* self._input_ch was closed by end_input()
  pushed,            \* items pushed on input_ch so far
  pa_pc,             \* _process_audio: "idle" | "wake_yield" | "wake_cb"
  detect_time,       \* local detect_time of _process_wake_word
  trig_model,        \* locals model_name and score of _process_wake_word
  trig_score,        \* at its yield (they are not read after it)
  trig_hits,         \* models at or above the threshold in the call that
                     \* triggered, while its wake is being handled
  mon_pc,            \* _monitor_silence: "sleep" | "cb"
  mon_wake,          \* deadline of the monitor's sleep
  wake_pending,      \* on_wake_detected tasks created and not yet started
  wake_calls,        \* on_wake_detected invocations started
  notified,          \* states passed to on_state_changed, in order
  activations,       \* LISTENING -> ACTIVE transitions taken
  max_score,         \* highest score any predict call returned
  det_frames,        \* frames handed to _process_wake_word
  last_calls,        \* predict calls made for the latest frame handed to it
  active_calls,      \* predict calls made while the gate state was ACTIVE
  inner_frames,      \* frames pushed to the inner recognition stream
  vad_frames,        \* frames pushed to the speech-activity stream
  inner_flushes,     \* flush() calls made on the inner recognition stream
  vad_flushes,       \* flush() calls made on the speech-activity stream
  inner_ended,       \* end_input() calls made on the inner stream
  vad_ended,         \* end_input() calls made on the speech-activity stream
  inner_seq,         \* events the inner stream has yielded (the first
                     \* MaxEvents are numbered and followed)
  event_ch,          \* self._event_ch: the numbers of the events sent
  late_events,       \* whether an event was relayed while LISTENING
  mon_outcome,       \* what the latest poll of the monitor did
  cond_age,          \* ticks the close condition has held without a break
  release_age,       \* ticks since the busy -> not-busy release, while open
  wake_age,          \* ticks since the detection that opened the gate
  speech_end_age,    \* ticks since the latest end-of-speech event of the
                     \* speech-activity stream
  item_limit,        \* items the source delivers in this run
  handled,           \* the sub-stream event the latest step handled, as
                     \* <<stream, type>>; <<>> when it handled none
  frame_data,        \* frame.data of the frame at hand, as int16 samples
  num_channels,      \* frame.num_channels of that frame
  frame_pending,     \* the frame at hand was not yet given to the detector
  buffer_samples     \* the samples in self._oww_buffer, concatenated

vars == <<oww_model, model_loads, active_stream, streams, load_errors,
          state, agent_busy, speech_active, last_speech_time, oww_buffer,
          oww_primed, on_wake_detected, on_state_changed, now, run_pc,
          tasks, cancelling, inner_closed, vad_closed, state_errors, wake_errors,
          predict_errors,
          input_ch, pushed, pa_pc, detect_time, trig_model, trig_score,
          trig_hits,
          mon_pc, mon_wake,
          wake_pending, wake_calls, notified, activations,
          inner_seq, event_ch, late_events,
          max_score, det_frames, last_calls, active_calls, inner_frames,
          vad_frames,
          inner_flushes, vad_flushes, inner_ended, vad_ended, input_closed,
          mon_outcome, cond_age, release_age, wake_age, speech_end_age,
          item_limit, handled, earlier_busy,
          frame_data, num_channels, frame_pending, buffer_samples>>

stt == <<oww_model, model_loads, active_stream, streams, load_errors>>
callbacks == <<on_wake_detected, on_state_changed>>
samples == <<frame_data, num_channels, frame_pending, buffer_samples>>
setup == <<callbacks, item_limit, samples>>
config == <<setup, stt, input_closed, earlier_busy>>
faults == <<state_errors, wake_errors, predict_errors>>
lifecycle == <<run_pc, tasks, cancelling, inner_closed, vad_closed>>
orchestrator == <<lifecycle, faults>>
gate == <<state, agent_busy, speech_active, last_speech_time>>
calls_made == <<last_calls, active_calls>>
detector == <<oww_buffer, oww_primed, max_score, calls_made>>
wake == <<detect_time, trig_model, trig_score, trig_hits, wake_pending,
          wake_calls>>
locals == <<detect_time, trig_model, trig_score, trig_hits>>
monitor == <<mon_pc, mon_wake, mon_outcome>>
flushed == <<inner_flushes, vad_flushes>>
ended == <<inner_ended, vad_ended>>
substreams == <<inner_frames, vad_frames, flushed, ended>>
output == <<inner_seq, event_ch, late_events>>

NoAge == 0 - 1
NoEvent == <<>>
\* The step handles no event of a sub-stream.
NoEventHandled == handled' = NoEvent
ages == <<release_age, wake_age, speech_end_age>>

Min(a, b) == IF a < b THEN a ELSE b
Max(a, b) == IF a > b THEN a ELSE b

\* ------------------------------------------------------------ bookkeeping
\* The ACTIVE -> LISTENING condition of the specification, on the stored
\* fields.
GateCloseCondition ==
  /\ state = ACTIVE
  /\ ~agent_busy
  /\ ~speech_active
  /\ now - last_speech_time >= SilenceTimeout

\* cond_age counts the ticks since GateCloseCondition last became true.
TrackCondition ==
  cond_age' = IF GateCloseCondition' /\ GateCloseCondition
                THEN Min(cond_age + (now' - now), PollInterval + 1)
                ELSE 0

\* ------------------------------------------------------------------ Init
\* The fields of a stream after WakeWordGatedStream.__init__, and the
\* bookkeeping of a stream that has not run.
Constructed ==
  /\ state = LISTENING
  /\ oww_buffer = 0
  /\ last_speech_time = 0
  /\ agent_busy = FALSE
  /\ earlier_busy = FALSE
  /\ speech_active = FALSE
  /\ oww_primed = FALSE
  /\ on_wake_detected \in BOOLEAN
  /\ on_state_changed \in BOOLEAN
  /\ now = StartTime
  /\ run_pc = "start"
  /\ tasks = {}
  /\ cancelling = FALSE
  /\ inner_closed = FALSE
  /\ vad_closed = FALSE
  /\ state_errors = 0
  /\ wake_errors = 0
  /\ predict_errors = 0
  /\ input_ch = <<>>
  /\ pushed = 0
  /\ pa_pc = "idle"
  /\ detect_time = 0
  /\ trig_model = NoModel
  /\ trig_score = 0
  /\ trig_hits = 0
  /\ mon_pc = "sleep"
  /\ mon_wake = 0
  /\ wake_pending = 0
  /\ wake_calls = 0
  /\ notified = <<>>
  /\ activations = 0
  /\ max_score = 0
  /\ det_frames = 0
  /\ last_calls = 0
  /\ active_calls = 0
  /\ inner_frames = 0
  /\ vad_frames = 0
  /\ inner_flushes = 0
  /\ vad_flushes = 0
  /\ inner_ended = 0
  /\ vad_ended = 0
  /\ input_closed = FALSE
  /\ inner_seq = 0
  /\ event_ch = <<>>
  /\ late_events = FALSE
  /\ mon_outcome = "none"
  /\ cond_age = 0
  /\ release_age = NoAge
  /\ wake_age = NoAge
  /\ speech_end_age = NoAge
  /\ handled = NoEvent

\* The samples of the frames are not followed: frames are known by their
\* sample counts.
NoSamples ==
  /\ frame_data = <<>>
  /\ num_channels = 1
  /\ frame_pending = FALSE
  /\ buffer_samples = <<>>

\* One stream has been created by a first, successful stream() call.
Init ==
  /\ Constructed
  /\ NoSamples
  /\ oww_model = TRUE
  /\ model_loads = 1
  /\ active_stream = 1
  /\ streams = 1
  /\ load_errors = 0
  /\ item_limit = MaxItems

\* A task of _run takes steps while it has not terminated and has not been
\* cancelled.
Runs(t) == t \in tasks /\ ~cancelling

\* _run has not begun to shut down.  The shutdown runs on callbacks the
\* event loop has ready; nothing it does reads the clock, the input channel
\* or agent_busy, so the environment is followed up to its beginning.
Open == run_pc \in {"start", "running"} /\ ~cancelling

\* await asyncio.gather(*tasks): the first task that ends with an exception
\* or cancelled ends the gather, and _run resumes in its finally clause.
TaskEnds(t) ==
  /\ tasks' = tasks \ {t}
  /\ run_pc' = IF run_pc = "running" THEN "raised" ELSE run_pc
  /\ UNCHANGED <<cancelling, inner_closed, vad_closed>>

\* ------------------------------------------------- _set_state (224-233)
\* Mutant: the try/except around the callback is missing.
StateCallbackOutcome_Uncaught(raised) ==
  IF raised THEN "propagates" ELSE "returned"
\* try: await self._on_state_changed(state) / except Exception: warning
StateCallbackOutcome(raised) == IF raised THEN "logged" ELSE "returned"
\* Mutant: the comparison with the current state is missing.
SetStateChanges_Always(s) == TRUE
\* if self._state != state
SetStateChanges(s) == state # s
\* ... and the on_state_changed callback is then awaited
SetStateAwaits(s) == SetStateChanges(s) /\ on_state_changed
\* await self._on_state_changed(state): the arguments the callback gets
CallbackArgs(s) == <<s>>
\* The synchronous part of _set_state(s), up to the await of the callback.
SetState(s) ==
  /\ state' = IF SetStateChanges(s) THEN s ELSE state
  /\ notified' = IF SetStateAwaits(s) THEN Append(notified, s) ELSE notified
  /\ activations' = IF SetStateChanges(s) /\ s = ACTIVE
                      THEN activations + 1 ELSE activations

\* ------------------------------------------ _process_wake_word (338-383)
\* Mutants of the comparison: reversed, and exclusive.
Triggered_Reversed(score) == score <= Threshold
Triggered_Strict(score) == score > Threshold
\* if score >= self._threshold
Triggered(score) == score >= Threshold
\* some model of one predictions dict triggers
TriggeredChunk(scores) == \E m \in Models : Triggered(scores[m])
\* while total_samples >= OWW_CHUNK_SAMPLES: chunks available in the buffer
NumChunks(total) == total \div ChunkSamples
\* Index of the first inference call that triggers, 0 when none does.
FirstHit(preds, k) ==
  IF \E i \in 1..k : TriggeredChunk(preds[i])
    THEN CHOOSE i \in 1..k :
           /\ TriggeredChunk(preds[i])
           /\ \A j \in 1..(i - 1) : ~TriggeredChunk(preds[j])
    ELSE 0
\* Mutant: the `return` of line 383 is missing, the while loop goes on.
CallsMade_NoReturn(preds, k) == k
\* Inference calls made on a buffer of k chunks: the loop returns at a hit.
CallsMade(preds, k) == IF FirstHit(preds, k) > 0 THEN FirstHit(preds, k) ELSE k
\* The calls among them made after the one that triggered, that is, after
\* _set_state(ACTIVE).
CallsAfterHit(preds, k) ==
  IF FirstHit(preds, k) > 0 THEN CallsMade(preds, k) - FirstHit(preds, k)
  ELSE 0
MaxOf(scores) == CHOOSE x \in {scores[m] : m \in Models} :
                   \A m \in Models : scores[m] <= x
RECURSIVE MaxOver(_, _)
MaxOver(preds, c) ==
  IF c = 0 THEN 0 ELSE Max(MaxOf(preds[c]), MaxOver(preds, c - 1))
\* Mutants: the coroutine is built and never scheduled; the loop over the
\* models does not return and schedules once per triggering model.
ScheduleWake_NotScheduled(pending, scores) == pending
ScheduleWake_PerModel(pending, scores) ==
  pending + Cardinality({m \in Models : scores[m] >= Threshold})
\* asyncio.create_task(self._on_wake_detected()), reached once per call:
\* the loop over the models returns at the first one that triggers
ScheduleWake(pending, scores) == pending + 1

\* The models of one predictions dict whose score triggers.
Hits(scores) == Cardinality({m \in Models : Triggered(scores[m])})

\* for model_name, score in predictions.items(): the first model, in the
\* order of the dict, whose score triggers
TriggeringModel(scores) ==
  ModelNames[CHOOSE i \in 1..Len(ModelNames) :
               /\ Triggered(scores[ModelNames[i]])
               /\ \A j \in 1..(i - 1) : ~Triggered(scores[ModelNames[j]])]

\* Mutant: the silence timer is set back to its value at construction.
FinishWake_Zero(t) ==
  /\ last_speech_time' = 0
  /\ detect_time' = 0
  /\ trig_model' = NoModel
  /\ trig_score' = 0
  /\ trig_hits' = 0
  /\ pa_pc' = "idle"
\* The continuation after _set_state(ACTIVE) returns: lines 381-383, where
\* the locals go out of scope.
FinishWake(t) ==
  /\ last_speech_time' = t
  /\ detect_time' = 0
  /\ trig_model' = NoModel
  /\ trig_score' = 0
  /\ trig_hits' = 0
  /\ pa_pc' = "idle"

\* Lines 379-383 from `await self._set_state(ACTIVE)` on, to the await of
\* the on_state_changed callback or to the return; t is the local
\* detect_time.
OpenGate(t) ==
  /\ SetState(ACTIVE)
  /\ IF SetStateAwaits(ACTIVE)
       THEN /\ pa_pc' = "wake_cb"
            /\ detect_time' = t
            /\ trig_model' = NoModel
            /\ trig_score' = 0
            /\ UNCHANGED <<last_speech_time, trig_hits>>
       ELSE FinishWake(t)

\* _process_wake_word(frame) with a frame of n mono samples, where preds[i]
\* is what the i-th predict call of this frame returns; runs to the first
\* await or to the return.
ProcessWakeWord(n, preds) ==
  LET total == oww_buffer + n
      k == NumChunks(total)
      calls == CallsMade(preds, k)
      hit == FirstHit(preds, k) > 0
  IN /\ oww_buffer' = total - calls * ChunkSamples
     /\ oww_primed' = (oww_primed \/ calls > 0)
     /\ max_score' = Max(max_score, MaxOver(preds, calls))
     /\ last_calls' = calls
     /\ active_calls' = active_calls + (IF state = ACTIVE THEN calls
                                        ELSE CallsAfterHit(preds, k))
     /\ IF ~hit
          THEN /\ pa_pc' = "idle"
               /\ UNCHANGED <<state, notified, activations, last_speech_time,
                              locals, wake_pending, wake_age>>
          ELSE LET m == TriggeringModel(preds[calls]) IN
               \* logger.info(model_name, score) is all that reads them
               /\ wake_age' = 0
               /\ IF on_wake_detected
                    THEN \* create_task, then await asyncio.sleep(0)
                         /\ wake_pending' =
                              ScheduleWake(wake_pending, preds[calls])
                         /\ detect_time' = now
                         /\ trig_model' = m
                         /\ trig_score' = preds[calls][m]
                         /\ trig_hits' = Hits(preds[calls])
                         /\ pa_pc' = "wake_yield"
                         /\ UNCHANGED <<state, notified, activations,
                                        last_speech_time>>
                    ELSE /\ wake_pending' = wake_pending
                         /\ OpenGate(now)

\* ------------------------- _process_wake_word, the samples (340-349)
\* audio_data[::step]: the elements at positions 0, step, 2 * step, ... of
\* the array (numpy's slice with a stride)
Stride(data, step) ==
  [i \in 1..((Len(data) + step - 1) \div step) |-> data[(i - 1) * step + 1]]
\* Mutant: the test of num_channels and the slice are missing.
FirstChannel_AllChannels(data, channels) == data
\* audio_data = np.frombuffer(frame.data, dtype=np.int16) reads the int16
\* samples of the frame as they are; if frame.num_channels > 1:
\* audio_data = audio_data[::frame.num_channels]
FirstChannel(data, channels) ==
  IF channels > 1 THEN Stride(data, channels) ELSE data

\* The interleaved frames of c channels with k samples per channel.
Frames(c, k) == [1..(c * k) -> SampleValues]

\* Lines 341-349 for a frame too short to complete a chunk: the audio of
\* its first channel joins the buffer, and the while loop is not entered.
AppendFrame ==
  /\ frame_pending
  /\ LET audio_data == FirstChannel(frame_data, num_channels) IN
       /\ Len(buffer_samples) + Len(audio_data) <= MaxBuffered
       /\ oww_buffer + Len(audio_data) < ChunkSamples
       /\ buffer_samples' = buffer_samples \o audio_data
       /\ oww_buffer' = oww_buffer + Len(audio_data)
  /\ frame_pending' = FALSE
  /\ UNCHANGED <<frame_data, num_channels>>
  /\ UNCHANGED <<stt, callbacks, item_limit, earlier_busy, gate, oww_primed,
                 max_score, calls_made, wake, orchestrator, input_ch,
                 input_closed, pushed, pa_pc, monitor, notified, activations,
                 det_frames, substreams, output, ages, now>>
  /\ NoEventHandled
  /\ TrackCondition

\* The source delivers the next frame.
NextFrame ==
  /\ ~frame_pending
  /\ \E c \in 1..MaxChannels : \E k \in 1..MaxPerChannel :
       \E data \in Frames(c, k) :
         /\ frame_data' = data
         /\ num_channels' = c
  /\ frame_pending' = TRUE
  /\ UNCHANGED <<buffer_samples, oww_buffer>>
  /\ UNCHANGED <<stt, callbacks, item_limit, earlier_busy, gate, oww_primed,
                 max_score, calls_made, wake, orchestrator, input_ch,
                 input_closed, pushed, pa_pc, monitor, notified, activations,
                 det_frames, substreams, output, ages, now>>
  /\ NoEventHandled
  /\ TrackCondition

\* A LISTENING stream whose detector is given frames of a few samples, the
\* samples followed one by one.
SampleInit ==
  /\ Constructed
  /\ oww_model = TRUE
  /\ model_loads = 1
  /\ active_stream = 1
  /\ streams = 1
  /\ load_errors = 0
  /\ item_limit = MaxItems
  /\ frame_data = <<>>
  /\ num_channels = 1
  /\ frame_pending = FALSE
  /\ buffer_samples = <<>>

SampleNext ==
  \/ NextFrame
  \/ AppendFrame

SampleSpec == SampleInit /\ [][SampleNext]_vars

\* ---------------------------------------------- _process_audio (256-276)
\* Mutant: the test of the gate state is inverted.
RouteToDetector_Inverted(s) == s = ACTIVE
\* if self._state == WakeWordState.LISTENING: ... else: ...
RouteToDetector(s) == s = LISTENING

\* Mutant: a flush signal is passed on whatever the gate state is.
FlushesSubstreams_Always(s) == TRUE
\* if isinstance(data, self._FlushSentinel):
\*     if self._state == WakeWordState.ACTIVE: flush both sub-streams
FlushesSubstreams(s) == s = ACTIVE

\* One iteration of `async for data in self._input_ch`.
ProcessAudio ==
  /\ Runs("process_audio")
  /\ pa_pc = "idle"
  /\ input_ch # <<>>
  /\ input_ch' = Tail(input_ch)
  /\ LET data == Head(input_ch) IN
       IF data.kind = "flush"
         THEN /\ IF FlushesSubstreams(state)
                   THEN /\ inner_flushes' = inner_flushes + 1
                        /\ vad_flushes' = vad_flushes + 1
                   ELSE UNCHANGED flushed
              /\ UNCHANGED <<gate, detector, wake, pa_pc, notified,
                             activations, det_frames, inner_frames,
                             vad_frames, wake_age>>
         ELSE IF RouteToDetector(state)
           THEN /\ det_frames' = det_frames + 1
                /\ \E preds \in [1..NumChunks(oww_buffer + data.samples)
                                   -> ScoreVectors] :
                      ProcessWakeWord(data.samples, preds)
                /\ UNCHANGED <<agent_busy, speech_active, wake_calls,
                               substreams>>
           ELSE /\ inner_frames' = inner_frames + 1
                /\ vad_frames' = vad_frames + 1
                /\ UNCHANGED <<gate, detector, wake, pa_pc, notified,
                               activations, det_frames, flushed, wake_age>>
  /\ UNCHANGED <<config, now, orchestrator, pushed, monitor, release_age,
                 speech_end_age, output, ended>>
  /\ NoEventHandled
  /\ TrackCondition

\* Mutant: the loop ends as soon as the channel is closed.
InputExhausted_OnClose(ch, closed) == closed
\* `async for data in self._input_ch` ends: the channel is closed and every
\* item sent before the close was received
InputExhausted(ch, closed) == ch = <<>> /\ closed

\* The loop of _process_audio has ended: lines 275-276, and the task
\* returns.  The gather goes on waiting for the three other tasks.
ProcessAudioEnds ==
  /\ Runs("process_audio")
  /\ pa_pc = "idle"
  /\ InputExhausted(input_ch, input_closed)
  /\ inner_ended' = inner_ended + 1
  /\ vad_ended' = vad_ended + 1
  /\ pa_pc' = "done"
  /\ tasks' = tasks \ {"process_audio"}
  /\ UNCHANGED <<run_pc, cancelling, inner_closed, vad_closed, faults>>
  /\ UNCHANGED <<gate, detector, wake, config, now, input_ch, pushed,
                 monitor, notified, activations, det_frames, inner_frames,
                 vad_frames, flushed, output, ages>>
  /\ NoEventHandled
  /\ TrackCondition

\* The created on_wake_detected task takes its first step: it was queued
\* on the loop before _process_wake_word resumes from sleep(0).  The task
\* is not awaited by anyone: an exception of the callback stays in it.
WakeCallbackStart(raised) ==
  /\ wake_pending > 0
  /\ raised => wake_errors < MaxFaults
  /\ wake_pending' = wake_pending - 1
  /\ wake_calls' = wake_calls + 1
  /\ wake_errors' = IF raised THEN wake_errors + 1 ELSE wake_errors
  /\ UNCHANGED <<gate, detector, config, now, lifecycle, state_errors,
                 predict_errors, input_ch, pushed, pa_pc, locals, monitor,
                 notified, activations, det_frames, substreams, output, ages>>
  /\ NoEventHandled
  /\ TrackCondition

\* _process_wake_word resumes from `await asyncio.sleep(0)`: lines 379-383.
ResumeAfterYield ==
  /\ Runs("process_audio")
  /\ pa_pc = "wake_yield"
  /\ wake_pending = 0
  /\ OpenGate(detect_time)
  /\ UNCHANGED <<agent_busy, speech_active, detector, wake_pending,
                 wake_calls, config, now, orchestrator, input_ch, pushed, monitor,
                 det_frames, substreams, output, ages>>
  /\ NoEventHandled
  /\ TrackCondition

\* on_state_changed(ACTIVE) returns or raises: _set_state returns and line
\* 381 runs, unless the exception leaves _set_state and ends the task.
WakeCallbackReturn(raised) ==
  /\ Runs("process_audio")
  /\ pa_pc = "wake_cb"
  /\ raised => state_errors < MaxFaults
  /\ state_errors' = IF raised THEN state_errors + 1 ELSE state_errors
  /\ IF StateCallbackOutcome(raised) = "propagates"
       THEN /\ TaskEnds("process_audio")
            /\ pa_pc' = "done"
            /\ UNCHANGED <<last_speech_time, locals>>
       ELSE /\ FinishWake(detect_time)
            /\ UNCHANGED lifecycle
  /\ UNCHANGED <<state, agent_busy, speech_active, detector, wake_pending,
                 wake_calls, wake_errors, predict_errors, config, now,
                 input_ch, pushed, monitor, notified, activations, det_frames,
                 substreams, output, ages>>
  /\ NoEventHandled
  /\ TrackCondition

\* --------------------------------------------- _monitor_silence (302-321)
\* Mutants: the test of _speech_active, or of _agent_busy, is missing.
MonitorShouldClose_NoSpeechCheck ==
  /\ state = ACTIVE
  /\ ~agent_busy
  /\ now - last_speech_time >= SilenceTimeout
MonitorShouldClose_NoBusyCheck ==
  /\ state = ACTIVE
  /\ ~speech_active
  /\ now - last_speech_time >= SilenceTimeout
\* The condition of lines 308-314, evaluated when the sleep returns.
MonitorShouldClose ==
  /\ state = ACTIVE
  /\ ~agent_busy
  /\ ~speech_active
  /\ now - last_speech_time >= SilenceTimeout

\* What one check of the monitor finds.
MonitorOutcome ==
  IF state # ACTIVE THEN "idle"
  ELSE IF MonitorShouldClose THEN "closed"
  ELSE IF agent_busy \/ speech_active THEN "held"
  ELSE "early"

\* Mutant: the loop of the monitor ends after its first timeout.
ResetAndSleep_Once ==
  /\ oww_primed' = FALSE
  /\ mon_pc' = "done"
  /\ mon_wake' = mon_wake
\* self._oww.reset(), then the loop sleeps again
ResetAndSleep ==
  /\ oww_primed' = FALSE
  /\ mon_pc' = "sleep"
  /\ mon_wake' = now + PollInterval

\* The sleep of 0.5 s returns and one check runs, to the next await.
MonitorPoll ==
  /\ Runs("monitor_silence")
  /\ mon_pc = "sleep"
  /\ now >= mon_wake
  /\ mon_outcome' = MonitorOutcome
  /\ IF MonitorShouldClose
       THEN /\ SetState(LISTENING)
            /\ release_age' = NoAge
            /\ wake_age' = NoAge
            /\ speech_end_age' = NoAge
            /\ IF SetStateAwaits(LISTENING)
                 THEN /\ mon_pc' = "cb"
                      /\ UNCHANGED <<mon_wake, oww_primed>>
                 ELSE ResetAndSleep
       ELSE /\ mon_pc' = "sleep"
            /\ mon_wake' = now + PollInterval
            /\ UNCHANGED <<state, notified, activations, oww_primed, ages>>
  /\ UNCHANGED <<agent_busy, speech_active, last_speech_time, oww_buffer,
                 max_score, calls_made, wake, config, now,
                 orchestrator, input_ch, pushed, pa_pc, det_frames, substreams, output>>
  /\ NoEventHandled
  /\ TrackCondition

\* on_state_changed(LISTENING) returns or raises: line 321 runs and the
\* loop goes back to its sleep, unless the exception leaves _set_state and
\* ends the task.
MonitorCallbackReturn(raised) ==
  /\ Runs("monitor_silence")
  /\ mon_pc = "cb"
  /\ raised => state_errors < MaxFaults
  /\ state_errors' = IF raised THEN state_errors + 1 ELSE state_errors
  /\ IF StateCallbackOutcome(raised) = "propagates"
       THEN /\ TaskEnds("monitor_silence")
            /\ mon_pc' = "done"
            /\ UNCHANGED <<mon_wake, oww_primed>>
       ELSE /\ ResetAndSleep
            /\ UNCHANGED lifecycle
  /\ UNCHANGED <<gate, oww_buffer, max_score, calls_made,
                 wake, wake_errors, predict_errors, config, now, input_ch,
                 pushed, pa_pc, notified, activations, det_frames, substreams, output,
                 mon_outcome, ages>>
  /\ NoEventHandled
  /\ TrackCondition

\* ------------------------------------------- _read_inner_events (278-288)
\* Mutant: every event of the inner stream refreshes the silence timer.
RefreshesSpeechTime_AnyEvent(type) == TRUE
\* event.type in (START_OF_SPEECH, INTERIM_TRANSCRIPT, FINAL_TRANSCRIPT)
RefreshesSpeechTime(type) ==
  type \in {"START_OF_SPEECH", "INTERIM_TRANSCRIPT", "FINAL_TRANSCRIPT"}

\* Mutant: only the events that refresh the silence timer are sent on.
Relay_SpeechOnly(ch, id, type) ==
  IF RefreshesSpeechTime(type) THEN Append(ch, id) ELSE ch
\* self._event_ch.send_nowait(event)
Relay(ch, id, type) == Append(ch, id)

\* Mutant: the relay follows the speech events of the inner stream in
\* _speech_active, as the tracker does with those of the other stream.
RelaySpeechActive_Tracks(type, active) ==
  IF type = "START_OF_SPEECH" THEN TRUE
  ELSE IF type = "END_OF_SPEECH" THEN FALSE
  ELSE active
\* _read_inner_events assigns nothing to self._speech_active
RelaySpeechActive(type, active) == active

\* The inner stream yields one event and the relay handles it.  The inner
\* stream (a VAD in front of a batch recognizer) produces events only from
\* audio pushed to it.
ReadInnerEvents(type) ==
  /\ Runs("read_inner_events")
  /\ inner_frames > 0
  /\ IF inner_seq < MaxEvents
       THEN /\ inner_seq' = inner_seq + 1
            /\ event_ch' = Relay(event_ch, inner_seq + 1, type)
            /\ late_events' = (late_events \/ state = LISTENING)
       ELSE UNCHANGED output
  /\ last_speech_time' = IF RefreshesSpeechTime(type)
                           THEN now ELSE last_speech_time
  /\ speech_active' = RelaySpeechActive(type, speech_active)
  /\ UNCHANGED <<state, agent_busy, detector, wake, config,
                 now, orchestrator, input_ch, pushed, pa_pc, monitor, notified,
                 activations, det_frames, substreams, ages>>
  /\ handled' = <<"inner", type>>
  /\ TrackCondition

\* ---------------------------------------- _track_speech_activity (290-300)
\* The speech-activity stream yields one event and the tracker handles it.
TrackSpeechActivity(type) ==
  /\ Runs("track_speech_activity")
  /\ vad_frames > 0
  /\ speech_active' = IF type = "START_OF_SPEECH" THEN TRUE
                      ELSE IF type = "END_OF_SPEECH" THEN FALSE
                      ELSE speech_active
  /\ last_speech_time' = IF type \in {"START_OF_SPEECH", "END_OF_SPEECH"}
                           THEN now ELSE last_speech_time
  /\ speech_end_age' = IF type = "END_OF_SPEECH" THEN 0 ELSE speech_end_age
  /\ UNCHANGED <<state, agent_busy, detector, wake, config, now, orchestrator,
                 input_ch, pushed, pa_pc, monitor, notified, activations,
                 det_frames, substreams, output, release_age, wake_age>>
  /\ handled' = <<"vad", type>>
  /\ TrackCondition

\* ------------------------------------------------ set_agent_busy (214-222)
\* The method of the latest stream; the fields of an earlier stream are not
\* its own and are left to the caller, WakeWordGatedSTT.set_agent_busy.
\* Mutant: every call with busy = False starts a fresh window.
BusyReleased_OnFalse(was_busy, busy) == ~busy
\* if was_busy and not busy
BusyReleased(was_busy, busy) == was_busy /\ ~busy

SetAgentBusy(busy) ==
  /\ Open
  /\ agent_busy' = busy
  /\ last_speech_time' = IF BusyReleased(agent_busy, busy)
                           THEN now ELSE last_speech_time
  /\ release_age' = IF BusyReleased(agent_busy, busy) THEN 0 ELSE release_age
  /\ UNCHANGED <<state, speech_active, detector, wake, setup, stt,
                 input_closed, now, orchestrator,
                 input_ch, pushed, pa_pc, monitor, notified, activations,
                 det_frames, substreams, output, wake_age, speech_end_age>>
  /\ NoEventHandled
  /\ TrackCondition

\* ------------------------- WakeWordGatedSTT.set_agent_busy (155-158)
\* Mutant: the call is forwarded to every stream the STT has created.
BusyTargets_All(active, n) == 1..n
\* if self._active_stream: self._active_stream.set_agent_busy(busy)
\* The streams, by their numbers, that receive the call.
BusyTargets(active, n) == IF active # 0 THEN {active} ELSE {}

\* WakeWordGatedSTT.set_agent_busy (155-158).  The stream that
\* _active_stream refers to is the latest one created (line 152).
SttSetAgentBusy(busy) ==
  LET targets == BusyTargets(active_stream, streams) IN
  IF active_stream \notin targets
    THEN UNCHANGED vars
    ELSE /\ SetAgentBusy(busy)
         /\ earlier_busy' = IF (active_stream - 1) \in targets
                              THEN busy ELSE earlier_busy

\* ------------------------------------------------------ _run (235-254)
\* The sub-streams are created and `await self._set_state(LISTENING)` runs;
\* then the four tasks start, the monitor in its first sleep.
RunStart ==
  /\ run_pc = "start"
  /\ SetState(LISTENING)
  /\ run_pc' = "running"
  /\ tasks' = Tasks
  /\ mon_pc' = "sleep"
  /\ mon_wake' = now + PollInterval
  /\ UNCHANGED <<agent_busy, speech_active, last_speech_time, detector, wake,
                 config, now, input_ch, pushed, pa_pc, det_frames, substreams, output,
                 mon_outcome, ages, cancelling, inner_closed, vad_closed,
                 faults>>
  /\ NoEventHandled
  /\ TrackCondition

\* ----------------------------------------------------------- environment
\* push_frame / flush of the caller: one item joins the input channel.
PushItem(item) ==
  /\ Open
  /\ ~input_closed
  /\ pushed < item_limit
  /\ Len(input_ch) < MaxQueue
  /\ input_ch' = Append(input_ch, item)
  /\ pushed' = pushed + 1
  /\ UNCHANGED <<gate, detector, wake, config, now, orchestrator, pa_pc, monitor,
                 notified, activations, det_frames, substreams, output, ages>>
  /\ NoEventHandled
  /\ TrackCondition

\* end_input() of the caller: the input channel is closed; nothing can be
\* pushed after it.
EndInput ==
  /\ Open
  /\ ~input_closed
  /\ input_closed' = TRUE
  /\ UNCHANGED <<gate, detector, wake, setup, stt, earlier_busy, now,
                 orchestrator,
                 input_ch, pushed, pa_pc, monitor, notified, activations,
                 det_frames, substreams, output, ages>>
  /\ NoEventHandled
  /\ TrackCondition

\* An age grows with the clock, up to the timeout.
Older(age) == IF age = NoAge THEN NoAge ELSE Min(age + 1, SilenceTimeout)

\* One tick of the clock.  A monitor whose sleep is over runs before the
\* clock moves on.
Tick ==
  /\ Open
  /\ now < MaxTime
  /\ ~(Runs("monitor_silence") /\ mon_pc = "sleep" /\ now >= mon_wake)
  /\ now' = now + 1
  /\ release_age' = Older(release_age)
  /\ wake_age' = Older(wake_age)
  /\ speech_end_age' = Older(speech_end_age)
  /\ UNCHANGED <<gate, detector, wake, config, orchestrator, input_ch, pushed,
                 pa_pc, monitor, notified, activations, det_frames,
                 substreams, output>>
  /\ NoEventHandled
  /\ TrackCondition

\* The steps of the gate itself: frames in, wake handling, the monitor and
\* the clock.
GateNext ==
  \/ RunStart
  \/ \E n \in FrameSizes : PushItem(Frame(n))
  \/ ProcessAudio
  \/ WakeCallbackStart(FALSE)
  \/ ResumeAfterYield
  \/ WakeCallbackReturn(FALSE)
  \/ MonitorPoll
  \/ MonitorCallbackReturn(FALSE)
  \/ Tick

Next ==
  \/ GateNext
  \/ PushItem(FlushSentinel)
  \/ \E type \in InnerEventTypes : ReadInnerEvents(type)
  \/ \E type \in VADEventTypes : TrackSpeechActivity(type)
  \/ \E busy \in BOOLEAN : SttSetAgentBusy(busy)

Spec == Init /\ [][Next]_vars

\* A stream whose agent stays idle, whose source sends frames only and
\* whose inner stream yields no events, followed over one frame more.
SpeechInit ==
  /\ Constructed
  /\ NoSamples
  /\ oww_model = TRUE
  /\ model_loads = 1
  /\ active_stream = 1
  /\ streams = 1
  /\ load_errors = 0
  /\ item_limit = MaxItemsQuiet

SpeechNext ==
  \/ GateNext
  \/ \E type \in VADEventTypes : TrackSpeechActivity(type)

SpeechSpec == SpeechInit /\ [][SpeechNext]_vars

\* A stream whose agent stays idle and whose sub-streams yield no events,
\* with a source that sends frames and flush signals and ends its input.
InputNext ==
  \/ GateNext
  \/ PushItem(FlushSentinel)
  \/ EndInput
  \/ ProcessAudioEnds

InputSpec == Init /\ [][InputNext]_vars

\* The event loop runs every task that is ready: _run starts, the frame
\* path takes what is queued, and the callbacks of the caller return.
InputFairness ==
  /\ WF_vars(RunStart)
  /\ WF_vars(ProcessAudio)
  /\ WF_vars(ProcessAudioEnds)
  /\ WF_vars(WakeCallbackStart(FALSE))
  /\ WF_vars(ResumeAfterYield)
  /\ WF_vars(WakeCallbackReturn(FALSE))

InputLiveSpec == InputSpec /\ InputFairness

\* ------------------------------------------ WakeWordGatedSTT (107-158)
\* The STT after WakeWordGatedSTT.__init__: no model, no stream.  The
\* stream fields hold what the constructor of a stream will give them.
SttInit ==
  /\ Constructed
  /\ NoSamples
  /\ oww_model = FALSE
  /\ model_loads = 0
  /\ active_stream = 0
  /\ streams = 0
  /\ load_errors = 0
  /\ item_limit = MaxItems

\* Mutant: the attribute is assigned whether the load succeeded or not.
ModelAfterEnsure_KeepsFailed(loaded, load_ok) == TRUE
\* _ensure_model: self._oww after the call (assigned at line 112 only when
\* OWWModel(...) returns)
ModelAfterEnsure(loaded, load_ok) == loaded \/ load_ok
\* Mutant: the model is constructed anew at every call.
LoadsModel_Always(loaded) == TRUE
\* if self._oww is None: the call constructs an OWWModel
LoadsModel(loaded) == ~loaded
\* _ensure_model raises RuntimeError: a load was tried and failed
EnsureRaises(loaded, load_ok) == ~loaded /\ ~load_ok

\* The per-stream variables of the model that stream() leaves alone when it
\* raises and that a new stream starts afresh.
perstream == <<gate, oww_buffer, max_score, calls_made, wake, lifecycle,
               input_ch, input_closed, pushed, pa_pc, monitor, notified,
               activations, det_frames, substreams, output, ages>>

\* WakeWordGatedStream.__init__ (lines 207-212) for the stream that stream()
\* returns, and the bookkeeping of a stream that has not run.  The model
\* object is the one of the STT: nothing here calls its reset().
NewStream ==
  /\ state' = LISTENING
  /\ oww_buffer' = 0
  /\ last_speech_time' = 0
  /\ agent_busy' = FALSE
  /\ speech_active' = FALSE
  /\ oww_primed' = oww_primed
  /\ run_pc' = "start"
  /\ tasks' = {}
  /\ cancelling' = FALSE
  /\ inner_closed' = FALSE
  /\ vad_closed' = FALSE
  /\ input_ch' = <<>>
  /\ input_closed' = FALSE
  /\ pushed' = 0
  /\ pa_pc' = "idle"
  /\ detect_time' = 0
  /\ trig_model' = NoModel
  /\ trig_score' = 0
  /\ trig_hits' = 0
  /\ mon_pc' = "sleep"
  /\ mon_wake' = 0
  /\ mon_outcome' = "none"
  /\ wake_pending' = 0
  /\ wake_calls' = 0
  /\ notified' = <<>>
  /\ activations' = 0
  /\ max_score' = 0
  /\ det_frames' = 0
  /\ last_calls' = 0
  /\ active_calls' = 0
  /\ inner_frames' = 0
  /\ vad_frames' = 0
  /\ inner_flushes' = 0
  /\ vad_flushes' = 0
  /\ inner_ended' = 0
  /\ vad_ended' = 0
  /\ inner_seq' = 0
  /\ event_ch' = <<>>
  /\ late_events' = FALSE
  /\ release_age' = NoAge
  /\ wake_age' = NoAge
  /\ speech_end_age' = NoAge

\* stream(): the argument oww=self._ensure_model() is evaluated before the
\* stream is constructed and before self._active_stream is assigned.
\* load_ok is whether OWWModel(...) would succeed.  The call is followed
\* when no run of an earlier stream is in progress: before the stream runs,
\* or after its _run has ended.
StreamCall(load_ok) ==
  /\ run_pc \in {"start", "done"}
  /\ oww_model' = ModelAfterEnsure(oww_model, load_ok)
  /\ IF EnsureRaises(oww_model, load_ok)
       THEN /\ load_errors < MaxLoadErrors
            /\ load_errors' = load_errors + 1
            /\ UNCHANGED <<model_loads, active_stream, streams, perstream,
                           oww_primed, earlier_busy>>
       ELSE /\ streams < MaxStreams
            /\ model_loads' = IF LoadsModel(oww_model)
                                THEN model_loads + 1 ELSE model_loads
            /\ streams' = streams + 1
            /\ active_stream' = streams + 1
            /\ NewStream
            /\ earlier_busy' = agent_busy
            /\ UNCHANGED load_errors
  /\ UNCHANGED <<setup, now, faults>>
  /\ NoEventHandled
  /\ TrackCondition

SttNext ==
  \/ \E load_ok \in BOOLEAN : StreamCall(load_ok)
  \/ \E busy \in BOOLEAN : SttSetAgentBusy(busy)
  \/ Tick

SttSpec == SttInit /\ [][SttNext]_vars

\* ------------------------------------------------- failures and shutdown
\* self._oww.predict(chunk) raises at the f-th call made for a frame, after
\* calls that did not trigger: nothing in _process_wake_word or
\* _process_audio catches it, so the process_audio task ends with it.
PredictRaises ==
  /\ Runs("process_audio")
  /\ pa_pc = "idle"
  /\ predict_errors < MaxFaults
  /\ input_ch # <<>>
  /\ Head(input_ch).kind = "frame"
  /\ RouteToDetector(state)
  /\ input_ch' = Tail(input_ch)
  /\ LET n == Head(input_ch).samples
         total == oww_buffer + n
     IN /\ det_frames' = det_frames + 1
        /\ \E f \in 1..NumChunks(total) :
             \E preds \in [1..(f - 1) -> ScoreVectors] :
               /\ FirstHit(preds, f - 1) = 0
               /\ oww_buffer' = total - f * ChunkSamples
               /\ oww_primed' = (oww_primed \/ f > 1)
               /\ max_score' = Max(max_score, MaxOver(preds, f - 1))
               /\ last_calls' = f
               /\ active_calls' = active_calls
  /\ predict_errors' = predict_errors + 1
  /\ TaskEnds("process_audio")
  /\ pa_pc' = "done"
  /\ UNCHANGED <<gate, wake, config, now, state_errors, wake_errors, pushed,
                 monitor, notified, activations, substreams, output, ages>>
  /\ NoEventHandled
  /\ TrackCondition

\* `async for event in ...` raises what the sub-stream failed with: the
\* relay (t = "read_inner_events") or the tracker ends with it.  Like its
\* events, the failure of a sub-stream comes from audio pushed to it.
SubstreamRaises(t) ==
  /\ Runs(t)
  /\ IF t = "read_inner_events" THEN inner_frames > 0 ELSE vad_frames > 0
  /\ TaskEnds(t)
  /\ UNCHANGED <<gate, detector, wake, config, now, faults, input_ch, pushed,
                 pa_pc, monitor, notified, activations, det_frames,
                 substreams, output, ages>>
  /\ NoEventHandled
  /\ TrackCondition

\* The task running _run is cancelled while it awaits the gather: the
\* gather cancels its four tasks.
CancelRun ==
  /\ run_pc = "running"
  /\ ~cancelling
  /\ cancelling' = TRUE
  /\ UNCHANGED <<run_pc, tasks, inner_closed, vad_closed>>
  /\ UNCHANGED <<gate, detector, wake, config, now, faults, input_ch, pushed,
                 pa_pc, monitor, notified, activations, det_frames,
                 substreams, output, ages>>
  /\ NoEventHandled
  /\ TrackCondition

\* A cancelled task gets its CancelledError and terminates; its locals are
\* gone.
TaskCancelled(t) ==
  /\ cancelling
  /\ t \in tasks
  /\ TaskEnds(t)
  /\ IF t = "process_audio"
       THEN /\ pa_pc' = "done"
            /\ detect_time' = 0
            /\ trig_model' = NoModel
            /\ trig_score' = 0
            /\ trig_hits' = 0
       ELSE UNCHANGED <<pa_pc, locals>>
  /\ mon_pc' = IF t = "monitor_silence" THEN "done" ELSE mon_pc
  /\ UNCHANGED <<gate, detector, wake_pending, wake_calls, config, now,
                 faults, input_ch, pushed, mon_wake, mon_outcome, notified,
                 activations, det_frames, substreams, output, ages>>
  /\ NoEventHandled
  /\ TrackCondition

\* await asyncio.gather(*tasks) is over: a task has ended with an exception
\* or cancelled, or every task has returned.
GatherEnded(pc, ts) == pc = "raised" \/ (pc = "running" /\ ts = {})

\* finally: aio.cancel_and_wait(*tasks) calls cancel() on every task and
\* waits.
EnterFinally ==
  /\ GatherEnded(run_pc, tasks)
  /\ run_pc' = "waiting"
  /\ cancelling' = TRUE
  /\ UNCHANGED <<tasks, inner_closed, vad_closed>>
  /\ UNCHANGED <<gate, detector, wake, config, now, faults, input_ch, pushed,
                 pa_pc, monitor, notified, activations, det_frames,
                 substreams, output, ages>>
  /\ NoEventHandled
  /\ TrackCondition

\* Mutant: the tasks are cancelled and not waited for.
AllTasksDone_NoWait(ts) == TRUE
\* cancel_and_wait returns when every task it was given is done
AllTasksDone(ts) == ts = {}

\* cancel_and_wait has returned: await self._inner_stream.aclose()
CloseInner ==
  /\ run_pc = "waiting"
  /\ AllTasksDone(tasks)
  /\ inner_closed' = TRUE
  /\ run_pc' = "close_vad"
  /\ UNCHANGED <<tasks, cancelling, vad_closed>>
  /\ UNCHANGED <<gate, detector, wake, config, now, faults, input_ch, pushed,
                 pa_pc, monitor, notified, activations, det_frames,
                 substreams, output, ages>>
  /\ NoEventHandled
  /\ TrackCondition

\* await vad_stream.aclose(), and _run ends with the exception it had.
CloseVad ==
  /\ run_pc = "close_vad"
  /\ vad_closed' = TRUE
  /\ run_pc' = "done"
  /\ UNCHANGED <<tasks, cancelling, inner_closed>>
  /\ UNCHANGED <<gate, detector, wake, config, now, faults, input_ch, pushed,
                 pa_pc, monitor, notified, activations, det_frames,
                 substreams, output, ages>>
  /\ NoEventHandled
  /\ TrackCondition

FaultNext ==
  \/ GateNext
  \/ WakeCallbackStart(TRUE)
  \/ WakeCallbackReturn(TRUE)
  \/ MonitorCallbackReturn(TRUE)
  \/ PredictRaises
  \/ \E t \in {"read_inner_events", "track_speech_activity"} :
       SubstreamRaises(t)
  \/ CancelRun
  \/ \E t \in Tasks : TaskCancelled(t)
  \/ EnterFinally
  \/ CloseInner
  \/ CloseVad

FaultSpec == Init /\ [][FaultNext]_vars

\* ------------------------------------------------------- end of a run
\* `async for event in self._inner_stream` (t = "read_inner_events") or
\* `async for event in vad_stream` ends: the sub-stream was told that its
\* input is over and has yielded its last event; the task returns.  The
\* gather goes on waiting for the tasks that are left.
SubstreamExhausted(t) ==
  /\ Runs(t)
  /\ IF t = "read_inner_events" THEN inner_ended > 0 ELSE vad_ended > 0
  /\ tasks' = tasks \ {t}
  /\ UNCHANGED <<run_pc, cancelling, inner_closed, vad_closed, faults>>
  /\ UNCHANGED <<gate, detector, wake, config, now, input_ch, pushed, pa_pc,
                 monitor, notified, activations, det_frames, substreams,
                 output, ages>>
  /\ NoEventHandled
  /\ TrackCondition

\* `await asyncio.sleep(0.5)` of the monitor returns at an instant later
\* than those the clock follows.  The frame path has ended with the gate in
\* LISTENING, so the gate stays there and no step reads the clock any more:
\* the sleep is over, and the clock is left where it is.
SleepReturns ==
  /\ Runs("monitor_silence")
  /\ mon_pc = "sleep"
  /\ now = MaxTime
  /\ mon_wake > now
  /\ state = LISTENING
  /\ "process_audio" \notin tasks
  /\ mon_wake' = now
  /\ UNCHANGED <<mon_pc, mon_outcome>>
  /\ UNCHANGED <<gate, detector, wake, config, now, orchestrator, input_ch,
                 pushed, pa_pc, notified, activations, det_frames, substreams,
                 output, ages>>
  /\ NoEventHandled
  /\ TrackCondition

\* A stream whose source sends frames and ends its input and whose
\* sub-streams then run dry, with an idle agent; the task running _run may
\* be cancelled from outside.
DrainNext ==
  \/ GateNext
  \/ EndInput
  \/ ProcessAudioEnds
  \/ SleepReturns
  \/ \E t \in {"read_inner_events", "track_speech_activity"} :
       SubstreamExhausted(t)
  \/ CancelRun
  \/ \E t \in Tasks : TaskCancelled(t)
  \/ EnterFinally
  \/ CloseInner
  \/ CloseVad

DrainSpec == Init /\ [][DrainNext]_vars

\* The event loop runs every task that is ready, the sub-streams finish
\* once their input is over, the clock advances and the sleep of the
\* monitor returns.  A cancellation from outside is never bound to come.
DrainFairness ==
  /\ InputFairness
  /\ \A t \in {"read_inner_events", "track_speech_activity"} :
       WF_vars(SubstreamExhausted(t))
  /\ WF_vars(Tick)
  /\ WF_vars(SleepReturns)
  /\ WF_vars(MonitorPoll)
  /\ WF_vars(MonitorCallbackReturn(FALSE))
  /\ \A t \in Tasks : WF_vars(TaskCancelled(t))
  /\ WF_vars(EnterFinally)
  /\ WF_vars(CloseInner)
  /\ WF_vars(CloseVad)

DrainLiveSpec == DrainSpec /\ DrainFairness

\* ------------------------------------------------- successive sessions
\* One STT serving streams one after the other: a stream runs, its _run is
\* cancelled (the stream is closed) and shuts down, and stream() is called
\* again.  The agent stays idle and the sub-streams yield no events.
SessionNext ==
  \/ GateNext
  \/ CancelRun
  \/ \E t \in Tasks : TaskCancelled(t)
  \/ EnterFinally
  \/ CloseInner
  \/ CloseVad
  \/ \E load_ok \in BOOLEAN : StreamCall(load_ok)

SessionSpec == Init /\ [][SessionNext]_vars

\* =================================================================== claims

\* C1: every ACTIVE -> LISTENING transition is taken in a state where
\* agent_busy is false, speech_active is false and at least silence_timeout
\* has elapsed since last_speech_time.
C1_CloseOnlyWhenIdleAndTimedOut ==
  [][(state = ACTIVE /\ state' = LISTENING)
       => /\ ~agent_busy
          /\ ~speech_active
          /\ now - last_speech_time >= SilenceTimeout]_vars

\* The monitor has closed a gate that a wake word had opened.
C1_Witness ==
  /\ state = LISTENING
  /\ activations > 0
  /\ inner_frames > 0
  /\ pa_pc = "idle"
  /\ mon_outcome = "closed"
  /\ ~agent_busy
  /\ ~speech_active
  /\ now - last_speech_time >= SilenceTimeout

\* C2: once the gate is ACTIVE and the close condition (not busy, no
\* speech, silence_timeout elapsed since last_speech_time) holds without a
\* break, the gate is back in LISTENING within one polling interval.
C2_ClosedWithinOnePoll ==
  GateCloseCondition => cond_age <= PollInterval

\* C3: while the gate is ACTIVE and agent_busy is true, no step closes the
\* gate, whatever the elapsed silence.
C3_BusyKeepsGateOpen ==
  [][(state = ACTIVE /\ agent_busy) => state' = ACTIVE]_vars

\* A poll found the gate ACTIVE and busy, with the silence already longer
\* than the timeout by a polling interval, and left it open.
C3_Witness ==
  /\ state = ACTIVE
  /\ agent_busy
  /\ ~speech_active
  /\ mon_outcome = "held"
  /\ now - last_speech_time >= SilenceTimeout + PollInterval

\* C4: after set_agent_busy(false) has released a busy agent, the gate does
\* not close earlier than silence_timeout after the release instant.
C4_FullWindowAfterRelease ==
  [][(state = ACTIVE /\ state' = LISTENING /\ release_age # NoAge)
       => release_age >= SilenceTimeout]_vars

\* C5: as long as every score of every inference call is below the
\* threshold, the gate is LISTENING, no wake-detected callback was scheduled
\* or run and no state change was notified.
C5_BelowThresholdStaysListening ==
  max_score < Threshold
    => /\ state = LISTENING
       /\ activations = 0
       /\ wake_pending = 0
       /\ wake_calls = 0
       /\ notified = <<>>
       /\ pa_pc = "idle"

\* Two frames went through the detector, inference ran, nothing triggered.
C5_Witness ==
  /\ det_frames >= 2
  /\ max_score > 0
  /\ max_score < Threshold
  /\ oww_buffer < ChunkSamples

\* C6: when the highest score any inference call has returned equals the
\* threshold exactly, the wake handling has started (the frame path is at
\* its yield, or the gate has been opened), and the frame path leaves the
\* yield only by opening the gate.
C6_ThresholdIsInclusive ==
  /\ [](max_score = Threshold => (activations > 0 \/ pa_pc = "wake_yield"))
  /\ [][(pa_pc = "wake_yield" /\ pa_pc' # "wake_yield")
          => (state = LISTENING /\ state' = ACTIVE)]_vars

\* The gate is open and no score above the threshold was ever returned.
C6_Witness ==
  /\ state = ACTIVE
  /\ max_score = Threshold
  /\ activations = 1

\* C7: a step that takes a frame off the input channel hands it to the
\* detector alone when the gate is LISTENING and to both sub-streams alone
\* when it is ACTIVE; no other step feeds the detector or a sub-stream, and
\* every frame pushed is either still queued or was routed to one side.
C7_FramesRoutedByGateState ==
  /\ [][IF /\ input_ch # <<>>
           /\ input_ch' = Tail(input_ch)
           /\ Head(input_ch).kind = "frame"
          THEN IF state = LISTENING
                 THEN /\ det_frames' = det_frames + 1
                      /\ inner_frames' = inner_frames
                      /\ vad_frames' = vad_frames
                 ELSE /\ det_frames' = det_frames
                      /\ inner_frames' = inner_frames + 1
                      /\ vad_frames' = vad_frames + 1
          ELSE UNCHANGED <<det_frames, inner_frames, vad_frames>>]_vars
  /\ [](/\ inner_frames = vad_frames
        /\ det_frames + inner_frames + Len(input_ch) <= pushed)

\* One frame went to the detector and a later one to both sub-streams.
C7_Witness ==
  /\ det_frames >= 1
  /\ inner_frames >= 1
  /\ vad_frames >= 1

\* C8: the gate does not return to LISTENING until silence_timeout has
\* elapsed since the detection instant of the wake that opened it.
C8_FullWindowAfterWake ==
  [][(state = ACTIVE /\ state' = LISTENING)
       => wake_age >= SilenceTimeout]_vars

\* C9: when an on_wake_detected callback is configured, the step that sets
\* the gate to ACTIVE (and invokes on_state_changed(ACTIVE)) starts from a
\* state in which the callback of this transition is already scheduled, and
\* schedules nothing itself.
C9_WakeScheduledBeforeFlip ==
  [][(state = LISTENING /\ state' = ACTIVE /\ on_wake_detected)
       => /\ wake_calls + wake_pending = activations + 1
          /\ wake_calls' + wake_pending' = wake_calls + wake_pending
          /\ Len(notified') <= Len(notified) + 1
          /\ Len(SelectSeq(notified, LAMBDA x : x = ACTIVE)) <= activations]_vars

\* A wake with both callbacks configured has opened the gate.
C9_Witness ==
  /\ on_wake_detected
  /\ on_state_changed
  /\ state = ACTIVE
  /\ wake_calls = 1
  /\ activations = 1
  /\ notified = <<ACTIVE>>

\* C10: with the callback configured, the on_wake_detected invocations
\* (started or queued) number the LISTENING -> ACTIVE transitions, plus the
\* one of a transition whose yield is still pending; a queued invocation
\* starts while the gate is still LISTENING.
C10_OneWakeCallPerActivation ==
  /\ on_wake_detected
       => wake_calls + wake_pending
            = activations + (IF pa_pc = "wake_yield" THEN 1 ELSE 0)
  /\ ~on_wake_detected => (wake_calls = 0 /\ wake_pending = 0)
  /\ wake_pending > 0 => (state = LISTENING /\ pa_pc = "wake_yield")

\* Two wake/timeout cycles have run, each with its one invocation.
C10_Witness ==
  /\ on_wake_detected
  /\ activations = 2
  /\ wake_calls = 2
  /\ wake_pending = 0

\* C11: on_state_changed is invoked with the new state by every step that
\* changes the gate state and by no other step (the initial
\* _set_state(LISTENING) of _run included), so the notified states
\* alternate ACTIVE, LISTENING, ACTIVE, ...; nothing is notified when no
\* callback is configured.
C11_NotifiedOnEveryChange ==
  /\ [][IF state' # state /\ on_state_changed
          THEN notified' = Append(notified, state')
          ELSE notified' = notified]_vars
  /\ [](\A i \in 1..Len(notified) :
          notified[i] = IF i % 2 = 1 THEN ACTIVE ELSE LISTENING)
  /\ [](~on_state_changed => notified = <<>>)

\* The stream has started and the gate has opened, closed and opened again.
C11_Witness ==
  /\ run_pc = "running"
  /\ state = ACTIVE
  /\ notified = <<ACTIVE, LISTENING, ACTIVE>>

\* C12: the step that opens the gate on a triggering chunk emits exactly
\* one state-change event, which carries ACTIVE together with the name and
\* the score of the model that triggered, and does not reset the detector
\* (stated for a stream with both callbacks, where the gate opens when the
\* frame path resumes from its yield with the name and the score at hand).
C12_WakeEventCarriesTrigger ==
  [][(state = LISTENING /\ state' = ACTIVE /\ on_state_changed
        /\ on_wake_detected)
       => /\ Len(notified') = Len(notified) + 1
          /\ CallbackArgs(notified'[Len(notified')])
               = <<ACTIVE, trig_model, trig_score>>
          /\ oww_primed' = oww_primed]_vars

\* C13: a frame of n samples handed to the detector while the buffer holds
\* b samples makes floor((b + n) / 1280) inference calls and leaves
\* (b + n) mod 1280 samples in the buffer.  From an empty buffer this is,
\* frame after frame, floor(N / 1280) calls and N mod 1280 samples left for
\* the N samples handed over in total, and the statement about every
\* sequence of frames holds only if each frame does this.
C13_ChunkingExact ==
  [][det_frames' > det_frames
       => LET n == Head(input_ch).samples IN
            /\ last_calls' = (oww_buffer + n) \div ChunkSamples
            /\ oww_buffer' = (oww_buffer + n) % ChunkSamples]_vars

\* C14: every step that takes the gate from ACTIVE back to LISTENING
\* leaves the detection buffer empty.
C14_BufferDiscardedOnRearm ==
  [][(state = ACTIVE /\ state' = LISTENING) => oww_buffer' = 0]_vars

\* C15: after the monitor has set the gate back to LISTENING, no inference
\* call is made before the monitor has called reset(), and the reset is
\* made while the gate is still LISTENING.
C15_ResetBeforeInference ==
  [][/\ (det_frames' > det_frames /\ last_calls' > 0) => mon_pc # "cb"
     /\ (mon_pc = "cb" /\ mon_pc' = "sleep") => state = LISTENING]_vars

\* C16: a predict call that raises changes neither the gate state nor the
\* set of running tasks, and leaves the frame path ready for the next
\* frame.
C16_InferenceFailureRecovered ==
  [][predict_errors' > predict_errors
       => /\ state' = state
          /\ tasks' = tasks
          /\ pa_pc' = "idle"]_vars

\* C17: an on_state_changed invocation that raises ends no task and leaves
\* the gate state as committed, and its caller goes on (the frame path
\* writes last_speech_time, the monitor returns to its sleep); an
\* on_wake_detected invocation that raises ends no task either, the frame
\* path still opens the gate when it resumes from its yield, and
\* last_speech_time is still set to the detection instant.
C17_CallbackFailuresContained ==
  [][/\ state_errors' > state_errors
          => /\ tasks' = tasks
             /\ state' = state
             /\ \/ /\ pa_pc = "wake_cb"
                   /\ pa_pc' = "idle"
                   /\ last_speech_time' = detect_time
                \/ /\ mon_pc = "cb"
                   /\ mon_pc' = "sleep"
     /\ wake_errors' > wake_errors
          => /\ tasks' = tasks
             /\ state' = state
             /\ pa_pc' = pa_pc
     /\ (wake_errors > 0 /\ pa_pc = "wake_yield" /\ pa_pc' # "wake_yield"
           /\ ~cancelling)
          => state' = ACTIVE
     /\ (wake_errors > 0 /\ pa_pc \in {"wake_yield", "wake_cb"}
           /\ pa_pc' = "idle")
          => last_speech_time' = detect_time]_vars

\* Both callbacks of one wake have raised; the gate is open, the detection
\* instant is in last_speech_time and the four tasks are running.
C17_Witness ==
  /\ wake_errors = 1
  /\ state_errors = 1
  /\ activations = 1
  /\ state = ACTIVE
  /\ pa_pc = "idle"
  /\ last_speech_time >= StartTime
  /\ tasks = Tasks
  /\ ~cancelling

\* C19: the inner recognition stream is closed only when none of the four
\* tasks is left and the speech-activity stream is still open; the
\* speech-activity stream is closed only after the inner stream; no task is
\* left once a sub-stream is closed.
C19_TasksAwaitedBeforeClose ==
  /\ [][(~inner_closed /\ inner_closed') => (tasks = {} /\ ~vad_closed')]_vars
  /\ [][(~vad_closed /\ vad_closed') => (tasks = {} /\ inner_closed)]_vars
  /\ []((inner_closed \/ vad_closed) => (tasks = {} /\ cancelling))

\* _run has left through its finally clause after a task failed while the
\* gate was open: both sub-streams are closed and no task is left.
C19_Witness ==
  /\ run_pc = "done"
  /\ inner_closed
  /\ vad_closed
  /\ tasks = {}
  /\ activations > 0
  /\ inner_frames > 0

\* C20: the output channel holds the events the inner stream has yielded,
\* each once and in the order yielded; the step in which the inner stream
\* yields an event sends that event, in either gate state, and no other
\* step sends anything.
C20_InnerEventsRelayedInOrder ==
  /\ [](event_ch = [i \in 1..inner_seq |-> i])
  /\ [][IF inner_seq' > inner_seq
          THEN event_ch' = Append(event_ch, inner_seq')
          ELSE event_ch' = event_ch]_vars

\* Two events were relayed, one of them after the gate had returned to
\* LISTENING.
C20_Witness ==
  /\ event_ch = <<1, 2>>
  /\ late_events
  /\ activations = 1
  /\ state = LISTENING

\* C21: a step in which the relay handles an event of the inner stream sets
\* last_speech_time to the current time when the type of the event is
\* start-of-speech, interim transcript or final transcript, leaves it as it
\* was for any other type, and changes neither the gate state nor agent_busy
\* nor speech_active.
C21_RelayRefreshesOnSpeechEvents ==
  [][(handled' # NoEvent /\ handled'[1] = "inner")
       => /\ last_speech_time' =
               IF handled'[2] \in {"START_OF_SPEECH", "INTERIM_TRANSCRIPT",
                                   "FINAL_TRANSCRIPT"}
                 THEN now ELSE last_speech_time
          /\ UNCHANGED <<state, agent_busy, speech_active>>]_vars

\* The relay has just handled a final transcript that came a full timeout
\* after the wake, while the user was speaking and the agent was busy.
C21_Witness ==
  /\ handled = <<"inner", "FINAL_TRANSCRIPT">>
  /\ state = ACTIVE
  /\ wake_age = SilenceTimeout
  /\ last_speech_time = now
  /\ speech_active
  /\ agent_busy

\* C22: a step in which the tracker handles an event of the speech-activity
\* stream sets speech_active to true on start-of-speech and to false on
\* end-of-speech, refreshing last_speech_time in both cases, and changes
\* neither field on any other event; and the gate does not close earlier
\* than silence_timeout after an end-of-speech event.
C22_SpeechActivityTracked ==
  /\ [][(handled' # NoEvent /\ handled'[1] = "vad")
          => /\ speech_active' =
                  IF handled'[2] = "START_OF_SPEECH" THEN TRUE
                  ELSE IF handled'[2] = "END_OF_SPEECH" THEN FALSE
                  ELSE speech_active
             /\ last_speech_time' =
                  IF handled'[2] \in {"START_OF_SPEECH", "END_OF_SPEECH"}
                    THEN now ELSE last_speech_time]_vars
  /\ [][(state = ACTIVE /\ state' = LISTENING /\ speech_end_age # NoAge)
          => speech_end_age >= SilenceTimeout]_vars

\* C23: the step that takes a flush signal off the input channel calls
\* flush() once on the inner recognition stream and once on the
\* speech-activity stream when the gate is ACTIVE, and changes nothing but
\* the channel when the gate is LISTENING (no flush() call, detection
\* buffer, detector and gate state as they were); no other step calls
\* flush().
C23_FlushOnlyWhileActive ==
  [][IF /\ input_ch # <<>>
        /\ input_ch' = Tail(input_ch)
        /\ Head(input_ch).kind = "flush"
       THEN /\ IF state = ACTIVE
                 THEN /\ inner_flushes' = inner_flushes + 1
                      /\ vad_flushes' = vad_flushes + 1
                 ELSE UNCHANGED <<inner_flushes, vad_flushes>>
            /\ UNCHANGED <<state, oww_buffer, oww_primed, last_calls,
                           det_frames, inner_frames, vad_frames,
                           last_speech_time, pa_pc>>
       ELSE UNCHANGED <<inner_flushes, vad_flushes>>]_vars

\* A wake has opened the gate and the flush signal that followed the frame
\* was passed on to both sub-streams.
C23_Witness ==
  /\ pushed = 2
  /\ det_frames = 1
  /\ inner_flushes = 1
  /\ vad_flushes = 1
  /\ input_ch = <<>>
  /\ state = ACTIVE

\* C24: end_input() is called on the inner recognition stream and on the
\* speech-activity stream in one step, once each, and only when the input
\* channel is closed and empty and no frame is being handled; once the
\* input channel is closed, that step is eventually taken, in whichever
\* state the gate is.
C24_EndOfInputPassedOn ==
  /\ [][(inner_ended' # inner_ended \/ vad_ended' # vad_ended)
          => /\ inner_ended = 0 /\ inner_ended' = 1
             /\ vad_ended = 0 /\ vad_ended' = 1
             /\ input_closed
             /\ input_ch = <<>>
             /\ pa_pc = "idle"
             /\ state' = state]_vars
  /\ [](inner_ended = vad_ended /\ inner_ended <= 1)
  /\ [](inner_ended = 1 => (input_closed /\ input_ch = <<>>))
  /\ (input_closed ~> (inner_ended = 1 /\ vad_ended = 1))

\* The input ended while the gate was ACTIVE, after the frame that woke
\* it and a flush signal that went to the sub-streams; both sub-streams
\* were told so.
C24_Witness ==
  /\ inner_ended = 1
  /\ vad_ended = 1
  /\ state = ACTIVE
  /\ pushed = 2
  /\ inner_flushes = 1
  /\ activations = 1
  /\ pa_pc = "done"

\* C25: a step that lowers last_speech_time is either the write that ends
\* the handling of a wake (it writes the detection instant) or a
\* busy -> not-busy release (it writes the current time); a step in which
\* the relay or the tracker handles an event never lowers it, and it is
\* never ahead of the clock.
C25_SpeechTimeMonotonic ==
  /\ [][last_speech_time' < last_speech_time
          => \/ /\ pa_pc \in {"wake_yield", "wake_cb"}
                /\ pa_pc' = "idle"
                /\ last_speech_time' = detect_time
             \/ /\ agent_busy
                /\ ~agent_busy'
                /\ last_speech_time' = now]_vars
  /\ [][handled' # NoEvent => last_speech_time' >= last_speech_time]_vars
  /\ [](last_speech_time <= now)

\* The write that ended the handling of a wake has set last_speech_time
\* back behind a release made in the same tick.
C25_Witness ==
  /\ state = ACTIVE
  /\ pa_pc = "idle"
  /\ ~agent_busy
  /\ release_age = 0
  /\ last_speech_time < now

\* C26: in a stream created on an STT that has served a stream before, the
\* first frame handed to the detector finds the detection buffer empty, and
\* the first inference call finds the model without hidden state of
\* earlier chunks (reset since its last predict call).
C26_DetectorFreshAtSessionStart ==
  /\ [][(streams > 1 /\ det_frames = 0 /\ det_frames' = 1) => oww_buffer = 0]_vars
  /\ [][(streams > 1 /\ max_score = 0 /\ det_frames' > det_frames
           /\ last_calls' > 0)
          => ~oww_primed]_vars

\* C27: no predict call is made while the gate state is ACTIVE: a frame is
\* handed to the detector only by a step that starts in LISTENING, and the
\* calls made for a frame end with the one that triggers.
C27_InferenceOnlyWhileListening ==
  /\ [](active_calls = 0)
  /\ [][det_frames' > det_frames => state = LISTENING]_vars

\* A frame completed two chunks; the first one triggered and opened the
\* gate, and the second was left in the buffer without a predict call.
C27_Witness ==
  /\ state = ACTIVE
  /\ activations = 1
  /\ last_calls = 1
  /\ oww_buffer >= ChunkSamples
  /\ pa_pc = "idle"

\* C28: whenever the frame path is not inside _process_wake_word (every
\* call of it has returned), the detection buffer holds fewer than 1280
\* samples.
C28_BufferBelowOneChunk ==
  pa_pc = "idle" => oww_buffer < ChunkSamples

\* C29: when two models score at or above the threshold in one inference
\* call (on_wake_detected configured), one on_wake_detected invocation is
\* scheduled for it, the frame path leaves its yield by one
\* LISTENING -> ACTIVE transition that notifies ACTIVE once, and while the
\* callback of that transition is awaited there is still one invocation,
\* one transition and one notification for this wake.
C29_OneWakePerInferenceCall ==
  /\ [](trig_hits >= 2
          => /\ pa_pc \in {"wake_yield", "wake_cb"}
             /\ wake_calls + wake_pending
                  = activations + (IF pa_pc = "wake_yield" THEN 1 ELSE 0)
             /\ wake_pending <= 1
             /\ on_state_changed
                  => Len(SelectSeq(notified, LAMBDA x : x = ACTIVE))
                       = activations)
  /\ [][(trig_hits >= 2 /\ pa_pc = "wake_yield" /\ pa_pc' # "wake_yield")
          => /\ state = LISTENING
             /\ state' = ACTIVE
             /\ activations' = activations + 1
             /\ wake_calls' = wake_calls
             /\ wake_pending' = wake_pending
             /\ notified' = IF on_state_changed
                               THEN Append(notified, ACTIVE) ELSE notified]_vars
  /\ [][(trig_hits >= 2 /\ pa_pc = "wake_cb")
          => UNCHANGED <<wake_calls, wake_pending, activations>>]_vars

\* Both models triggered in the first inference call of the run: the gate
\* is open, on_wake_detected was invoked once and on_state_changed(ACTIVE)
\* once, and that callback is being awaited.
C29_Witness ==
  /\ trig_hits = 2
  /\ pa_pc = "wake_cb"
  /\ state = ACTIVE
  /\ activations = 1
  /\ wake_calls = 1
  /\ wake_pending = 0
  /\ notified = <<ACTIVE>>

\* C30: the gate state is changed to ACTIVE only by a step of the frame
\* path (taking a frame to the detector, or resuming from its yield) and to
\* LISTENING only by a poll of the monitor; speech_active is changed only
\* by a step in which the tracker handles an event of the speech-activity
\* stream; agent_busy is changed only by a step in which no task of the
\* stream moves (a call of set_agent_busy).
C30_SingleWriterPerField ==
  /\ [][(state' # state /\ state' = ACTIVE)
          => /\ Runs("process_audio")
             /\ \/ pa_pc = "idle" /\ det_frames' = det_frames + 1
                \/ pa_pc = "wake_yield"
             /\ UNCHANGED <<mon_pc, mon_wake, mon_outcome>>
             /\ handled' = NoEvent]_vars
  /\ [][(state' # state /\ state' = LISTENING)
          => /\ Runs("monitor_silence")
             /\ mon_pc = "sleep"
             /\ now >= mon_wake
             /\ mon_outcome' = "closed"
             /\ UNCHANGED <<pa_pc, input_ch, det_frames>>
             /\ handled' = NoEvent]_vars
  /\ [][speech_active' # speech_active
          => (handled' # NoEvent /\ handled'[1] = "vad")]_vars
  /\ [][agent_busy' # agent_busy
          => /\ UNCHANGED <<state, speech_active, pa_pc, input_ch,
                            det_frames, inner_frames, mon_pc, mon_wake,
                            mon_outcome, event_ch, tasks, wake_calls>>
             /\ handled' = NoEvent]_vars

\* Every writer has written: the frame path opened the gate, the monitor
\* closed it, the tracker then set speech_active and the caller agent_busy.
C30_Witness ==
  /\ state = LISTENING
  /\ activations = 1
  /\ notified = <<ACTIVE, LISTENING>>
  /\ speech_active
  /\ agent_busy

\* C31: a set_agent_busy(busy) call stores busy in agent_busy and changes
\* neither the gate state nor speech_active, in either gate state; it sets
\* last_speech_time to the current time when agent_busy was true and busy
\* is false, and leaves it as it was in every other case (busy true, or
\* busy false with agent_busy already false).
C31_BusyLeavesGateAlone ==
  [][\A busy \in BOOLEAN :
       SetAgentBusy(busy)
         => /\ state' = state
            /\ speech_active' = speech_active
            /\ agent_busy' = busy
            /\ last_speech_time' = IF agent_busy /\ ~busy
                                     THEN now ELSE last_speech_time]_vars

\* The gate is ACTIVE with the user speaking; the agent was released in
\* this ACTIVE period and has been set busy again since, in a later tick,
\* and last_speech_time still holds an earlier instant.
C31_Witness ==
  /\ state = ACTIVE
  /\ speech_active
  /\ agent_busy
  /\ release_age > 0
  /\ last_speech_time < now

\* C32: WakeWordGatedSTT.set_agent_busy reaches the most recently created
\* stream only.  While no stream exists nothing holds a busy value (the
\* call is a no-op); a stream() call that creates a stream makes it the
\* active one, with agent_busy false, whatever was passed before, and the
\* stream it replaces keeps the value it had; no later call changes the
\* agent_busy of the replaced stream.
C32_BusyGoesToLatestStream ==
  /\ [](active_stream = streams)
  /\ [](active_stream = 0
         => (~agent_busy /\ ~earlier_busy /\ last_speech_time = 0))
  /\ [][streams' > streams
          => /\ active_stream' = streams'
             /\ ~agent_busy'
             /\ earlier_busy' = agent_busy]_vars
  /\ [][streams' = streams => earlier_busy' = earlier_busy]_vars

\* The first stream was left busy when the second was created; the second
\* has since been set busy and released, and the first is busy still.
C32_Witness ==
  /\ streams = 2
  /\ active_stream = 2
  /\ earlier_busy
  /\ ~agent_busy
  /\ release_age # NoAge

\* C33: once end_input() was called on both sub-streams, the frame path,
\* the relay and the tracker terminate (or the run is cancelled); and once
\* these three tasks have terminated, _run returns with both sub-streams
\* closed, unless it is cancelled from outside first (stated for the gate
\* in LISTENING, where nothing else is left to happen).
C33_RunReturnsAfterDrain ==
  /\ (inner_ended = 1 /\ vad_ended = 1)
       ~> (tasks \subseteq {"monitor_silence"} \/ cancelling)
  /\ (run_pc = "running" /\ tasks \subseteq {"monitor_silence"}
        /\ state = LISTENING)
       ~> ((run_pc = "done" /\ inner_closed /\ vad_closed) \/ cancelling)

\* ---- C34: measures of the distance to the next transition of the gate
\* Ticks until the silence is long enough, and until the monitor checks.
SilenceLeft == Max(0, last_speech_time + SilenceTimeout - now)
PollWait == IF mon_pc = "cb" THEN PollInterval ELSE Max(0, mon_wake - now)
TicksToClose == Max(SilenceLeft, PollWait)
\* What holds the gate open besides the clock.
Held == (IF agent_busy THEN 1 ELSE 0) + (IF speech_active THEN 1 ELSE 0)
\* The gate is ACTIVE in an open stream, and the clock of the model has the
\* ticks left that a timeout needs.
CanStillClose ==
  /\ state = ACTIVE
  /\ run_pc = "running"
  /\ tasks = Tasks
  /\ ~cancelling
  /\ now + (IF Held > 0 THEN Max(SilenceTimeout, PollWait) ELSE TicksToClose)
       <= MaxTime
CloseRank ==
  100 * Held + 10 * TicksToClose
    + (IF mon_pc = "cb" THEN 2 ELSE 0)
    + (IF mon_pc = "sleep" /\ now >= mon_wake THEN 1 ELSE 0)

\* The frame at the head of the input channel completes a chunk.
HeadCompletesChunk ==
  /\ input_ch # <<>>
  /\ Head(input_ch).kind = "frame"
  /\ oww_buffer + Head(input_ch).samples >= ChunkSamples
\* The gate is LISTENING in an open stream whose source has audio left to
\* deliver, or whose frame path already holds a qualifying score.
CanStillOpen ==
  /\ state = LISTENING
  /\ Open
  /\ run_pc = "running" => tasks = Tasks
  /\ \/ pa_pc = "wake_yield"
     \/ HeadCompletesChunk
     \/ pushed < item_limit /\ ~input_closed
OpenRank ==
  (IF run_pc = "start" THEN 1000 ELSE 0)
    + (IF pa_pc = "wake_cb" THEN 100 ELSE 0)
    + 10 * (IF pa_pc = "wake_yield" THEN 0
            ELSE IF input_ch = <<>> THEN 2
            ELSE IF HeadCompletesChunk THEN 1
            ELSE 2 + Len(input_ch))
    + wake_pending

\* C34: a stream that has not begun to run is in LISTENING with
\* speech_active false (and agent_busy as the caller has set it since the
\* constructor made it false), and the gate has no terminal state.  From every reachable state
\* in which the gate is ACTIVE, the stream is open and the clock has the
\* ticks of a timeout left, some step either closes the gate or leads to
\* such a state that is nearer to the timeout; from every reachable state
\* in which the gate is LISTENING, the stream is open and audio is still to
\* come, some step either opens the gate or leads to such a state that is
\* nearer to a qualifying score.  Both measures are natural numbers, so
\* LISTENING is reachable from the former states and ACTIVE from the
\* latter, whatever number of wake/timeout cycles came before.
C34_NoTerminalGateState ==
  /\ run_pc = "start"
       => (state = LISTENING /\ ~speech_active /\ activations = 0)
  /\ CanStillClose
       => ENABLED (Next /\ (\/ state' = LISTENING
                            \/ CanStillClose' /\ CloseRank' < CloseRank))
  /\ CanStillOpen
       => ENABLED (Next /\ (\/ state' = ACTIVE
                            \/ CanStillOpen' /\ OpenRank' < OpenRank))

\* The gate has opened, closed and opened again, and a second timeout is
\* still within reach while the agent is busy.
C34_Witness ==
  /\ activations = 2
  /\ CanStillClose
  /\ agent_busy

\* C35: the step in which a frame handed to the detector yields a wake
\* (the frame path goes to its yield, or opens the gate at once) makes no
\* predict call after the one that triggered and leaves every sample it
\* did not score in the detection buffer; the buffer is then not changed
\* while the wake is handled or the gate is ACTIVE; and a frame handed to
\* the detector is pushed to neither sub-stream, in that step or later.
C35_RestOfFrameLeftUnscored ==
  /\ [][(det_frames' > det_frames
           /\ (pa_pc' = "wake_yield" \/ activations' > activations))
          => /\ last_calls' >= 1
             /\ active_calls' = active_calls
             /\ oww_buffer' = oww_buffer + Head(input_ch).samples
                                 - last_calls' * ChunkSamples]_vars
  /\ [][(state = ACTIVE \/ pa_pc \in {"wake_yield", "wake_cb"})
          => oww_buffer' = oww_buffer]_vars
  /\ [][det_frames' > det_frames
          => (inner_frames' = inner_frames /\ vad_frames' = vad_frames)]_vars
  /\ [](det_frames + inner_frames + Len(input_ch) <= pushed)
  /\ [](det_frames + vad_frames + Len(input_ch) <= pushed)

\* A frame of 1920 samples joined 640 buffered ones and triggered on the
\* first of the two chunks; the second chunk is in the buffer still, a
\* tick or more into the ACTIVE period.
C35_Witness ==
  /\ state = ACTIVE
  /\ activations = 1
  /\ det_frames = 2
  /\ last_calls = 1
  /\ oww_buffer = ChunkSamples
  /\ wake_age >= 1

\* C36: an STT constructs at most one model, however many streams it
\* creates: a stream() call constructs it only when none is cached, every
\* stream is created with the one model constructed, and a stream() call
\* made after a failed load, with still no model cached, tries the load
\* again (it either constructs the model or fails in its turn).
C36_ModelLoadedOnce ==
  /\ [](model_loads <= 1)
  /\ [](oww_model <=> model_loads = 1)
  /\ [](streams > 0 => model_loads = 1)
  /\ [][streams' > streams
          => model_loads' = IF oww_model THEN model_loads
                             ELSE model_loads + 1]_vars
  /\ [][load_errors' > load_errors => (~oww_model /\ ~oww_model')]_vars
  /\ [][model_loads' > model_loads
          => (~oww_model /\ oww_model' /\ streams' = streams + 1)]_vars

\* A first stream() call failed to load the model, the next one loaded it,
\* and a third created a second stream with the same model.
C36_Witness ==
  /\ load_errors = 1
  /\ model_loads = 1
  /\ streams = 2
  /\ oww_model

\* C37: the step that gives a frame of c channels and k samples per channel
\* to the detector appends to the detection buffer, after what it holds,
\* the k samples at positions 0, c, 2c, ... of the frame, in that order;
\* for c = 1 these are all the samples of the frame, unchanged.
C37_FirstChannelAppended ==
  [][(frame_pending /\ ~frame_pending')
       => LET c == num_channels
              k == Len(frame_data) \div c
          IN /\ Len(buffer_samples') = Len(buffer_samples) + k
             /\ \A i \in 1..Len(buffer_samples) :
                  buffer_samples'[i] = buffer_samples[i]
             /\ \A j \in 0..(k - 1) :
                  buffer_samples'[Len(buffer_samples) + j + 1]
                    = frame_data[j * c + 1]
             /\ c = 1 => buffer_samples' = buffer_samples \o frame_data]_vars

\* After a mono frame, a frame of two channels with two samples each has
\* left the two samples of its first channel in the buffer, in order.
C37_Witness ==
  /\ ~frame_pending
  /\ num_channels = 2
  /\ frame_data = <<1, 2, 2, 1>>
  /\ buffer_samples = <<2, 1, 2>>

\* C18: a stream() call that fails to load the model creates no stream and
\* leaves the active-stream reference and the cached model as they were,
\* the model unloaded.
C18_LoadFailureCreatesNothing ==
  [][load_errors' > load_errors
       => /\ streams' = streams
          /\ active_stream' = active_stream
          /\ oww_model' = oww_model
          /\ ~oww_model'
          /\ model_loads' = model_loads]_vars

\* Two stream() calls have failed: there is no stream and no model.
C18_Witness ==
  /\ load_errors = 2
  /\ streams = 0
  /\ active_stream = 0
  /\ ~oww_model

=============================================================================
